---- MODULE Spec2Model ----
(***************************************************************************)
(* Model of job_runner/runjob.py: the runjob() command (parameter         *)
(* resolution, script generation, submission) and its monitoring loop     *)
(* print_output() over the generator file_iterator(), together with the   *)
(* remote job and the scheduler as the environment.                       *)
(*                                                                         *)
(* Strings are TLA+ strings; a script is the sequence of its lines (the   *)
(* text split at "\n"); the output file is a sequence of characters.      *)
(***************************************************************************)
EXTENDS Integers, Sequences, FiniteSets, TLC

(* ------------------------------ bounds -------------------------------- *)
\* most characters the remote job writes to its output file
MaxFileLen == 3
\* most interrupt signals (Ctrl-C) delivered to one run
MaxInterrupts == 2
\* ranges of the numeric inputs of the resolution
MaxGpus == 3
MaxGpusPerNode == 4
MaxCpusPerNode == 9

(* ------------------------------ values -------------------------------- *)
\* characters the remote job writes; NL ends a line
NL == "\n"
Chars == {"a", NL}
\* what a hole of a sparse file reads as
NUL == "NUL"
\* what file_iterator yields after an empty read
NoneVal == <<"None">>

\* the directory of runjob.py, for the path of assign_gpu.py
PackageDir == "/pkg/job_runner"
\* the text of a project's preamble file
PreambleText(name) == "# preamble " \o name \o "\n"
\* what squeue prints for a job that is in the queue
QueueEntry == "1 gpu job user R"

(* ------------------------- pure helper functions ---------------------- *)
\* Python's min()
Min(a, b) == IF a <= b THEN a ELSE b

\* pathlib's "/" operator
PathJoin(dir, name) == dir \o "/" \o name

\* ' '.join(tokens)
RECURSIVE JoinSpace(_)
JoinSpace(toks) ==
    IF toks = <<>> THEN ""
    ELSE IF Len(toks) = 1 THEN toks[1]
    ELSE toks[1] \o " " \o JoinSpace(Tail(toks))

\* A dict in insertion order is a sequence of <<key, value>> pairs with
\* distinct keys.
DictKeys(d) == {d[i][1] : i \in 1..Len(d)}
DictGet(d, k) == d[CHOOSE i \in 1..Len(d) : d[i][1] = k][2]
\* d[k] = v: an existing key keeps its place, a new key goes last
DictSet(d, k, v) ==
    IF k \in DictKeys(d)
    THEN [i \in 1..Len(d) |-> IF d[i][1] = k THEN <<k, v>> ELSE d[i]]
    ELSE Append(d, <<k, v>>)

\* int(a / b): the double quotient truncated; for operands below 2^31 the
\* quotient is exact enough that this is the integer quotient
IntDiv(a, b) == a \div b

\* FlagLines with every line put before the lines made so far
RECURSIVE FlagLines_Reversed(_)
FlagLines_Reversed(flags) ==
    IF flags = <<>> THEN <<>>
    ELSE FlagLines_Reversed(Tail(flags))
         \o <<"#SBATCH --" \o flags[1][1] \o "=" \o flags[1][2]>>

\* the script lines of the "for k, v in flags.items()" loop
RECURSIVE FlagLines(_)
FlagLines(flags) ==
    IF flags = <<>> THEN <<>>
    ELSE <<"#SBATCH --" \o flags[1][1] \o "=" \o flags[1][2]>>
         \o FlagLines(Tail(flags))

\* the script lines of the "for k, v in env.items()" loop
RECURSIVE EnvLines(_)
EnvLines(env) ==
    IF env = <<>> THEN <<>>
    ELSE <<"export " \o env[1][1] \o "=" \o env[1][2]>>
         \o EnvLines(Tail(env))

\* make_job_script(flags, env, commands), as the lines of the text
make_job_script(flags, env, commands) ==
    <<"#!/bin/bash">> \o FlagLines(flags) \o <<"">>
    \o EnvLines(env) \o <<"">> \o <<commands>>

(* ------------------------------- state -------------------------------- *)
VARIABLES
    pc,            \* position of runjob() / print_output() / file_iterator()
    err,           \* the exception that ended the run, "none" if none
    interrupts,    \* interrupt signals delivered so far
    intrAt,        \* the position at which the first interrupt arrived
    cachePresent,  \* whether .cache/cache.yaml exists (runjob-config was run)
    args,          \* the parsed command line
    cfg,           \* the configuration file's contents
    command,       \* args.command after the join
    project,       \* args.project after resolution
    queue,         \* args.queue after resolution
    flags,         \* the flags dict
    env,           \* the env OrderedDict
    jobDirExists,  \* whether job_dir exists
    scriptSh,      \* the pieces written to script.sh, <<>> before
    scriptSlurm,   \* the lines written to script.slurm, <<>> before
    submitRcs,     \* the exit codes of the sbatch invocations, in order
    jobState,      \* the remote job: "none", "pending", "running", "gone"
    cancelCalls,   \* the job names scancel was invoked with, in order
    queryFailed,   \* whether an squeue invocation exited with an error
    fileExists,    \* whether proc=0.out exists
    file,          \* the contents of proc=0.out
    jobOff,        \* the remote job's write offset into proc=0.out
    written,       \* everything the remote job has written, in order
    readOff,       \* the reader's offset into proc=0.out
    line,          \* file_iterator's local "line"
    resume,        \* where file_iterator resumes: "loop" or "after_none"
    text,          \* print_output's loop variable
    forwarded,     \* everything print_output has printed of the file
    consumed,      \* everything readline has returned
    jobinfo,       \* the output of the last squeue, "unset" before
    nReads,        \* readline calls since the last squeue
    reported       \* the messages printed: "submitted", "finished", "cancelled"

inputVars == <<cachePresent, args, cfg>>
resolveVars == <<command, project, queue, flags, env, jobDirExists,
                 scriptSh, scriptSlurm>>
schedVars == <<submitRcs, jobState, cancelCalls, queryFailed>>
fileVars == <<fileExists, file, jobOff, written>>
monVars == <<readOff, line, resume, text, forwarded, consumed, jobinfo,
             nReads, reported>>
intrVars == <<interrupts, intrAt>>
vars == <<pc, err, intrVars, inputVars, resolveVars, schedVars, fileVars,
          monVars>>

(* --------------------------- initial states --------------------------- *)
\* a configuration file: two projects (only p1 has a default_queue) and two
\* queues (q2's flags already hold a key that runjob sets)
Config(defProject, defQueue, p1Queue, gpn, cpn) ==
    [projects |->
        ("p1" :> [dir |-> "/home/p1", conda_env |-> "env1",
                  preamble |-> "pre1.sh", default_queue |-> p1Queue]
         @@ "p2" :> [dir |-> "/home/p2", conda_env |-> "env2",
                     preamble |-> "pre2.sh"]),
     default_project |-> defProject,
     gpu_queues |->
        ("q1" :> [flags |-> <<<<"partition", "gpu">>, <<"time", "1:00:00">>>>,
                  n_gpus_per_node |-> gpn, n_cpus_per_node |-> cpn]
         @@ "q2" :> [flags |-> <<<<"ntasks-per-node", "99">>,
                                 <<"partition", "big">>>>,
                     n_gpus_per_node |-> 2, n_cpus_per_node |-> 7]),
     default_queue |-> defQueue,
     storage |-> [root |-> "/scratch"],
     conda |-> [root |-> "/opt/conda"]]

\* the parsed arguments of lines 60-68
Args(p, q, n, t, a, c) ==
    [project |-> p, queue |-> q, ngpus |-> n, time |-> t, jobid |-> "42",
     assign_gpu |-> a, command |-> c]

InitRest ==
    /\ pc = "load_cache"
    /\ err = "none"
    /\ interrupts = 0
    /\ intrAt = "never"
    /\ command = ""
    /\ project = ""
    /\ queue = ""
    /\ flags = <<>>
    /\ env = <<>>
    /\ jobDirExists = FALSE
    /\ scriptSh = <<>>
    /\ scriptSlurm = <<>>
    /\ submitRcs = <<>>
    /\ jobState = "none"
    /\ cancelCalls = <<>>
    /\ queryFailed = FALSE
    /\ fileExists = FALSE
    /\ file = <<>>
    /\ jobOff = 0
    /\ written = <<>>
    /\ readOff = 0
    /\ line = <<>>
    /\ resume = "loop"
    /\ text = <<>>
    /\ forwarded = <<>>
    /\ consumed = <<>>
    /\ jobinfo = "unset"
    /\ nReads = 0
    /\ reported = {}

\* the runs of the whole lifecycle: the failing inputs and one good input
Init ==
    /\ cachePresent \in BOOLEAN
    /\ \E p \in {"", "px"}, q \in {"", "qx"}, c \in {<<>>, <<"echo", "hi">>} :
           args = Args(p, q, 2, "", TRUE, c)
    /\ cfg = Config("p1", "q1", "q2", 4, 32)
    /\ InitRest

\* the inputs of the resolution: every combination of names, options and
\* defaults with the numbers fixed
InitNames ==
    /\ cachePresent \in BOOLEAN
    /\ \E p \in {"", "p2", "px"}, q \in {"", "q1", "qx"},
          t \in {"", "2:00:00"}, a \in BOOLEAN,
          c \in {<<>>, <<"echo", "hi">>} :
           args = Args(p, q, 2, t, a, c)
    /\ \E dp \in {"p1", "p2", "px"}, dq \in {"q1", "qx"},
          pq \in {"q2", "qx"} :
           cfg = Config(dp, dq, pq, 4, 32)
    /\ InitRest

\* the inputs of the resolution: every combination of numbers with the
\* names fixed
InitNumbers ==
    /\ cachePresent = TRUE
    /\ \E n \in 1..MaxGpus, q \in {"", "q1"} :
           args = Args("", q, n, "", TRUE, <<"echo", "hi">>)
    /\ \E g \in 1..MaxGpusPerNode, c \in 1..MaxCpusPerNode :
           cfg = Config("p1", "q1", "q2", g, c)
    /\ InitRest

InitResolve == InitNames \/ InitNumbers

(* --------------------- runjob(): parameter resolution ----------------- *)
\* raise: the run ends with an uncaught exception
Raise(kind) ==
    /\ pc' = "crashed"
    /\ err' = kind

\* lines 70-73: read the cache file that names the configuration
LoadCache ==
    /\ pc = "load_cache"
    /\ IF cachePresent
       THEN pc' = "check_command" /\ err' = err
       ELSE Raise("ValueError")
    /\ UNCHANGED <<intrVars, inputVars, resolveVars, schedVars, fileVars,
                   monVars>>

\* CheckCommand without the check of line 75: an empty command is joined
\* to '' and the run goes on
CheckCommand_NoCheck ==
    /\ pc = "check_command"
    /\ pc' = "resolve_project"
    /\ command' = JoinSpace(args.command)
    /\ UNCHANGED <<err, intrVars, inputVars, project, queue, flags, env,
                   jobDirExists, scriptSh, scriptSlurm, schedVars, fileVars,
                   monVars>>

\* lines 75-77: a command is required; its tokens are joined
CheckCommand ==
    /\ pc = "check_command"
    /\ IF args.command = <<>>
       THEN Raise("ValueError") /\ command' = command
       ELSE pc' = "resolve_project" /\ err' = err
            /\ command' = JoinSpace(args.command)
    /\ UNCHANGED <<intrVars, inputVars, project, queue, flags, env,
                   jobDirExists, scriptSh, scriptSlurm, schedVars, fileVars,
                   monVars>>

\* lines 84-85: the project is the override, else the global default
SelectProject(a, c) ==
    IF a.project = "" THEN c.default_project ELSE a.project

\* lines 83-86: look the selected project up
ResolveProject ==
    /\ pc = "resolve_project"
    /\ LET name == SelectProject(args, cfg)
       IN  /\ project' = name
           /\ IF name \in DOMAIN cfg.projects
              THEN pc' = "resolve_queue" /\ err' = err
              ELSE Raise("KeyError")
    /\ UNCHANGED <<intrVars, inputVars, command, queue, flags, env,
                   jobDirExists, scriptSh, scriptSlurm, schedVars, fileVars,
                   monVars>>

\* SelectQueue with the two defaults tried in the other order
SelectQueue_GlobalFirst(a, c, proj) ==
    IF a.queue # "" THEN a.queue
    ELSE IF c.default_queue # "" THEN c.default_queue
    ELSE proj.default_queue

\* lines 89-93: the queue is the override, else the project's default
\* queue, else the global default
SelectQueue(a, c, proj) ==
    IF a.queue # "" THEN a.queue
    ELSE IF "default_queue" \in DOMAIN proj THEN proj.default_queue
    ELSE c.default_queue

\* ResolveQueue with the mkdir of line 99 done before the lookup of
\* line 94
ResolveQueue_MkdirFirst ==
    /\ pc = "resolve_queue"
    /\ jobDirExists' = TRUE
    /\ LET name == SelectQueue(args, cfg, cfg.projects[project])
       IN  /\ queue' = name
           /\ IF name \in DOMAIN cfg.gpu_queues
              THEN pc' = "make_job_dir" /\ err' = err
              ELSE Raise("KeyError")
    /\ UNCHANGED <<intrVars, inputVars, command, project, flags, env,
                   scriptSh, scriptSlurm, schedVars, fileVars, monVars>>

\* lines 88-94: look the selected queue up
ResolveQueue ==
    /\ pc = "resolve_queue"
    /\ LET name == SelectQueue(args, cfg, cfg.projects[project])
       IN  /\ queue' = name
           /\ IF name \in DOMAIN cfg.gpu_queues
              THEN pc' = "make_job_dir" /\ err' = err
              ELSE Raise("KeyError")
    /\ UNCHANGED <<intrVars, inputVars, command, project, flags, env,
                   jobDirExists, scriptSh, scriptSlurm, schedVars, fileVars,
                   monVars>>

\* lines 96-98: job_dir = storage root / job name
JobDir == PathJoin(cfg.storage.root, args.jobid)

\* lines 96-99: create the job directory
MakeJobDir ==
    /\ pc = "make_job_dir"
    /\ jobDirExists' = TRUE
    /\ pc' = "build_flags"
    /\ UNCHANGED <<err, intrVars, inputVars, command, project, queue, flags,
                   env, scriptSh, scriptSlurm, schedVars, fileVars, monVars>>

\* TasksPerNode without the min(): the requested count as it is
TasksPerNode_Requested(ngpus, q) == ngpus

\* line 105: n_proc_per_node
TasksPerNode(ngpus, q) == Min(ngpus, q.n_gpus_per_node)

\* line 106: n_cpus_per_gpu
CpusPerTask(q) == IntDiv(q.n_cpus_per_node, q.n_gpus_per_node)

\* lines 101-112: the flags dict, starting from the queue's flags
ResolvedFlags(q, a) ==
    LET f0 == q.flags
        f1 == IF a.time # "" THEN DictSet(f0, "time", a.time) ELSE f0
        f2 == DictSet(f1, "ntasks", ToString(a.ngpus))
        n_proc_per_node == TasksPerNode(a.ngpus, q)
        n_cpus_per_gpu == CpusPerTask(q)
        f3 == DictSet(f2, "ntasks-per-node", ToString(n_proc_per_node))
        f4 == DictSet(f3, "cpus-per-task", ToString(n_cpus_per_gpu))
        f5 == DictSet(f4, "job-name", a.jobid)
        f6 == DictSet(f5, "gres", "gpu:" \o ToString(n_proc_per_node))
        f7 == DictSet(f6, "output", PathJoin(JobDir, "stdout.out"))
    IN  DictSet(f7, "error", PathJoin(JobDir, "stdout.out"))

BuildFlags ==
    /\ pc = "build_flags"
    /\ flags' = ResolvedFlags(cfg.gpu_queues[queue], args)
    /\ pc' = "build_env"
    /\ UNCHANGED <<err, intrVars, inputVars, command, project, queue, env,
                   jobDirExists, scriptSh, scriptSlurm, schedVars, fileVars,
                   monVars>>

\* lines 114-124: the environment of the job, in the order of the keywords
ResolvedEnv(proj, f, a) ==
    << <<"JOB_DIR", JobDir>>,
       <<"PROJECT_DIR", proj.dir>>,
       <<"CONDA_ROOT", cfg.conda.root>>,
       <<"CONDA_ENV", proj.conda_env>>,
       <<"N_CPUS", DictGet(f, "cpus-per-task")>>,
       <<"N_PROCS", ToString(a.ngpus)>>,
       <<"PROC_ID", "${SLURM_PROCID}">>,
       <<"OUT_FILE", "${JOB_DIR}/proc=${PROC_ID}.out">> >>

BuildEnv ==
    /\ pc = "build_env"
    /\ env' = ResolvedEnv(cfg.projects[project], flags, args)
    /\ pc' = "write_launch_script"
    /\ UNCHANGED <<err, intrVars, inputVars, command, project, queue, flags,
                   jobDirExists, scriptSh, scriptSlurm, schedVars, fileVars,
                   monVars>>

\* LaunchScript without the test of line 129: the GPU step always added
LaunchScript_AlwaysAssign(proj, a, cmd) ==
    LET conda_python == PathJoin(cfg.conda.root, "envs/" \o proj.conda_env
                                                 \o "/bin/python")
        assign_gpu_path == PathJoin(PackageDir, "assign_gpu.py")
    IN  <<PreambleText(proj.preamble),
          "\n# This is automatically added by job-runner",
          "\neval $(" \o conda_python \o " " \o assign_gpu_path \o ")\n",
          "\n", cmd \o " &> $OUT_FILE">>

\* lines 126-133: the launch script, as the pieces appended to it
LaunchScript(proj, a, cmd) ==
    LET conda_python == PathJoin(cfg.conda.root, "envs/" \o proj.conda_env
                                                 \o "/bin/python")
        assign_gpu_path == PathJoin(PackageDir, "assign_gpu.py")
        s0 == <<PreambleText(proj.preamble)>>
        s1 == IF a.assign_gpu
              THEN s0 \o <<"\n# This is automatically added by job-runner",
                           "\neval $(" \o conda_python \o " "
                               \o assign_gpu_path \o ")\n">>
              ELSE s0
    IN  s1 \o <<"\n", cmd \o " &> $OUT_FILE">>

\* WriteLaunchScript without the write_text of line 136
WriteLaunchScript_NoWrite ==
    /\ pc = "write_launch_script"
    /\ pc' = "write_slurm_script"
    /\ UNCHANGED <<err, intrVars, inputVars, resolveVars, schedVars, fileVars,
                   monVars>>

\* lines 126-136: write script.sh
WriteLaunchScript ==
    /\ pc = "write_launch_script"
    /\ scriptSh' = LaunchScript(cfg.projects[project], args, command)
    /\ pc' = "write_slurm_script"
    /\ UNCHANGED <<err, intrVars, inputVars, command, project, queue, flags,
                   env, jobDirExists, scriptSlurm, schedVars, fileVars,
                   monVars>>

\* line 138: script_command
ScriptCommand == "srun bash " \o PathJoin(JobDir, "script.sh")

\* lines 138-153: write script.slurm and print both scripts
WriteSlurmScript ==
    /\ pc = "write_slurm_script"
    /\ scriptSlurm' = make_job_script(flags, env, ScriptCommand)
    /\ pc' = "submit"
    /\ UNCHANGED <<err, intrVars, inputVars, command, project, queue, flags,
                   env, jobDirExists, scriptSh, schedVars, fileVars, monVars>>

\* the resolution and generation steps of runjob()
NextResolve ==
    \/ LoadCache
    \/ CheckCommand
    \/ ResolveProject
    \/ ResolveQueue
    \/ MakeJobDir
    \/ BuildFlags
    \/ BuildEnv
    \/ WriteLaunchScript
    \/ WriteSlurmScript

SpecResolve == InitResolve /\ [][NextResolve]_vars

(* ----------------------- the scheduler and the job -------------------- *)
\* line 96: the job name is the job id
job_name == args.jobid

\* whether the scheduler's queue holds the job
InQueue == jobState \in {"pending", "running"}

\* write(2) of one character at the writer's offset: a write past the end
\* of the file leaves a hole before it
WriteAt(f, off, c) ==
    IF off >= Len(f)
    THEN f \o [i \in 1..(off - Len(f)) |-> NUL] \o <<c>>
    ELSE [f EXCEPT ![off + 1] = c]

\* line 133: the job's shell opens $OUT_FILE for "&>" (create, truncate)
\* when the command starts
JobStart ==
    /\ jobState = "pending"
    /\ jobState' = "running"
    /\ fileExists' = TRUE
    /\ file' = <<>>
    /\ jobOff' = 0
    /\ UNCHANGED <<pc, err, intrVars, inputVars, resolveVars, submitRcs,
                   cancelCalls, queryFailed, written, monVars>>

\* line 133: the running command writes one more character of its output;
\* a chunk is a run of these between two steps of the monitor
JobWrite ==
    /\ jobState = "running"
    /\ Len(written) < MaxFileLen
    /\ \E c \in Chars :
           /\ file' = WriteAt(file, jobOff, c)
           /\ written' = Append(written, c)
    /\ jobOff' = jobOff + 1
    /\ UNCHANGED <<pc, err, intrVars, inputVars, resolveVars, schedVars,
                   fileExists, monVars>>

\* the job ends, or fails, and leaves the scheduler's queue
JobExit ==
    /\ InQueue
    /\ jobState' = "gone"
    /\ UNCHANGED <<pc, err, intrVars, inputVars, resolveVars, submitRcs,
                   cancelCalls, queryFailed, fileVars, monVars>>

(* ------------------- print_output(): submit and monitor --------------- *)
\* line 156: sbatch; its exit code is not looked at
Submit ==
    /\ pc = "submit"
    /\ \E rc \in {0, 1} :
           /\ submitRcs' = Append(submitRcs, rc)
           /\ jobState' = IF rc = 0 THEN "pending" ELSE jobState
    /\ pc' = "announce"
    /\ UNCHANGED <<err, intrVars, inputVars, resolveVars, cancelCalls,
                   queryFailed, fileVars, monVars>>

\* lines 157-161: print "Job submitted" and the file that is followed
Announce ==
    /\ pc = "announce"
    /\ reported' = reported \cup {"submitted"}
    /\ pc' = "attach_check"
    /\ UNCHANGED <<err, intrVars, inputVars, resolveVars, schedVars, fileVars,
                   readOff, line, resume, text, forwarded, consumed, jobinfo,
                   nReads>>

\* lines 21-22 of file_iterator: does the followed file exist?
AttachCheck ==
    /\ pc = "attach_check"
    /\ pc' = IF fileExists THEN "open" ELSE "attach_create"
    /\ UNCHANGED <<err, intrVars, inputVars, resolveVars, schedVars, fileVars,
                   monVars>>

\* line 23: write_text(''): create the file, or truncate it
AttachCreate ==
    /\ pc = "attach_create"
    /\ fileExists' = TRUE
    /\ file' = <<>>
    /\ pc' = "open"
    /\ UNCHANGED <<err, intrVars, inputVars, resolveVars, schedVars, jobOff,
                   written, monVars>>

\* line 24: open the file for reading, at its start
Open ==
    /\ pc = "open"
    /\ readOff' = 0
    /\ pc' = "readline"
    /\ UNCHANGED <<err, intrVars, inputVars, resolveVars, schedVars, fileVars,
                   line, resume, text, forwarded, consumed, jobinfo, nReads,
                   reported>>

\* f.readline() at offset off: up to and with the next line end, or up to
\* the end of the file
ReadLineAt(f, off) ==
    LET rest == SubSeq(f, off + 1, Len(f))
        ends == {i \in 1..Len(rest) : rest[i] = NL}
    IN  IF ends = {} THEN rest
        ELSE SubSeq(rest, 1, CHOOSE i \in ends : \A j \in ends : i <= j)

\* ReadLine that does not keep its place in the file: every read starts
\* again from the offset of the one before
ReadLine_Reread ==
    /\ pc = "readline"
    /\ \/ LET l == ReadLineAt(file, readOff)
          IN  /\ line' = l
              /\ readOff' = readOff
              /\ consumed' = consumed \o l
              /\ nReads' = nReads + 1
              /\ pc' = IF l = <<>> THEN "sleep" ELSE "yield_line"
              /\ err' = err
       \/ /\ Raise("OSError")
          /\ UNCHANGED <<line, readOff, consumed, nReads>>
    /\ UNCHANGED <<intrVars, inputVars, resolveVars, schedVars, fileVars,
                   resume, text, forwarded, jobinfo, reported>>

\* ReadLine with a failed read taken for the end of the output: the loop
\* is left as if the job were gone
ReadLine_FailureEndsLoop ==
    /\ pc = "readline"
    /\ \/ LET l == ReadLineAt(file, readOff)
          IN  /\ line' = l
              /\ readOff' = readOff + Len(l)
              /\ consumed' = consumed \o l
              /\ nReads' = nReads + 1
              /\ pc' = IF l = <<>> THEN "sleep" ELSE "yield_line"
              /\ err' = err
       \/ /\ err' = "OSError"
          /\ pc' = "report_finished"
          /\ UNCHANGED <<line, readOff, consumed, nReads>>
    /\ UNCHANGED <<intrVars, inputVars, resolveVars, schedVars, fileVars,
                   resume, text, forwarded, jobinfo, reported>>

\* line 26: line = f.readline(); lines 27 and 30 branch on it
ReadLine ==
    /\ pc = "readline"
    /\ \/ LET l == ReadLineAt(file, readOff)
          IN  /\ line' = l
              /\ readOff' = readOff + Len(l)
              /\ consumed' = consumed \o l
              /\ nReads' = nReads + 1
              /\ pc' = IF l = <<>> THEN "sleep" ELSE "yield_line"
              /\ err' = err
       \/ /\ Raise("OSError")
          /\ UNCHANGED <<line, readOff, consumed, nReads>>
    /\ UNCHANGED <<intrVars, inputVars, resolveVars, schedVars, fileVars,
                   resume, text, forwarded, jobinfo, reported>>

\* lines 28-29: sleep, then yield None
Sleep ==
    /\ pc = "sleep"
    /\ text' = NoneVal
    /\ resume' = "after_none"
    /\ pc' = "forward"
    /\ UNCHANGED <<err, intrVars, inputVars, resolveVars, schedVars, fileVars,
                   readOff, line, forwarded, consumed, jobinfo, nReads,
                   reported>>

\* line 30: yield line
YieldLine ==
    /\ pc = "yield_line"
    /\ text' = line
    /\ resume' = "loop"
    /\ pc' = "forward"
    /\ UNCHANGED <<err, intrVars, inputVars, resolveVars, schedVars, fileVars,
                   readOff, line, forwarded, consumed, jobinfo, nReads,
                   reported>>

\* lines 163-164: print the text unless it is None
Forward ==
    /\ pc = "forward"
    /\ forwarded' = IF text # NoneVal THEN forwarded \o text ELSE forwarded
    /\ pc' = "query"
    /\ UNCHANGED <<err, intrVars, inputVars, resolveVars, schedVars, fileVars,
                   readOff, line, resume, text, consumed, jobinfo, nReads,
                   reported>>

\* Query inside a handler that catches every exception: a failed squeue
\* runs the handler of line 174
Query_FailureCancels ==
    /\ pc = "query"
    /\ \/ /\ jobinfo' = IF InQueue THEN QueueEntry ELSE ""
          /\ nReads' = 0
          /\ pc' = "check_break"
          /\ UNCHANGED queryFailed
       \/ /\ queryFailed' = TRUE
          /\ pc' = "except"
          /\ UNCHANGED <<jobinfo, nReads>>
    /\ UNCHANGED <<err, intrVars, inputVars, resolveVars, submitRcs, jobState,
                   cancelCalls, fileVars, readOff, line, resume, text,
                   forwarded, consumed, reported>>

\* Query with a failed squeue read as "no such job": subprocess.run in
\* place of check_output
Query_FailureAsEmpty ==
    /\ pc = "query"
    /\ \/ /\ jobinfo' = IF InQueue THEN QueueEntry ELSE ""
          /\ UNCHANGED queryFailed
       \/ /\ jobinfo' = ""
          /\ queryFailed' = TRUE
    /\ nReads' = 0
    /\ pc' = "check_break"
    /\ UNCHANGED <<err, intrVars, inputVars, resolveVars, submitRcs, jobState,
                   cancelCalls, fileVars, readOff, line, resume, text,
                   forwarded, consumed, reported>>

\* line 165: squeue for the job name; check_output raises when squeue
\* exits with an error
Query ==
    /\ pc = "query"
    /\ \/ /\ jobinfo' = IF InQueue THEN QueueEntry ELSE ""
          /\ nReads' = 0
          /\ pc' = "check_break"
          /\ UNCHANGED <<err, queryFailed>>
       \/ /\ queryFailed' = TRUE
          /\ Raise("CalledProcessError")
          /\ UNCHANGED <<jobinfo, nReads>>
    /\ UNCHANGED <<intrVars, inputVars, resolveVars, submitRcs, jobState,
                   cancelCalls, fileVars, readOff, line, resume, text,
                   forwarded, consumed, reported>>

\* CheckBreak with the test of line 166 never true (the bytes compared
\* with None): the loop is never left
CheckBreak_NeverBreaks ==
    /\ pc = "check_break"
    /\ pc' = IF resume = "after_none" THEN "yield_line" ELSE "readline"
    /\ UNCHANGED <<err, intrVars, inputVars, resolveVars, schedVars, fileVars,
                   monVars>>

\* CheckBreak that also leaves the loop after an empty read
CheckBreak_OnEmptyRead ==
    /\ pc = "check_break"
    /\ pc' = IF jobinfo = "" \/ text = NoneVal THEN "report_finished"
             ELSE IF resume = "after_none" THEN "yield_line"
             ELSE "readline"
    /\ UNCHANGED <<err, intrVars, inputVars, resolveVars, schedVars, fileVars,
                   monVars>>

\* lines 166-167: leave the loop when squeue printed nothing; otherwise
\* the generator resumes where it yielded
CheckBreak ==
    /\ pc = "check_break"
    /\ pc' = IF jobinfo = "" THEN "report_finished"
             ELSE IF resume = "after_none" THEN "yield_line"
             ELSE "readline"
    /\ UNCHANGED <<err, intrVars, inputVars, resolveVars, schedVars, fileVars,
                   monVars>>

\* lines 168-170: print "Job finished"
ReportFinished ==
    /\ pc = "report_finished"
    /\ reported' = reported \cup {"finished"}
    /\ pc' = "done"
    /\ UNCHANGED <<err, intrVars, inputVars, resolveVars, schedVars, fileVars,
                   readOff, line, resume, text, forwarded, consumed, jobinfo,
                   nReads>>

(* --------------------------- the interrupt ---------------------------- *)
\* the positions inside the try block of lines 172-173
TryPcs == {"submit", "announce", "attach_check", "attach_create", "open",
           "readline", "sleep", "yield_line", "forward", "query",
           "check_break", "report_finished"}

\* the positions of the polling loop of lines 162-167
StreamingPcs == {"readline", "sleep", "yield_line", "forward", "query",
                 "check_break"}

\* the positions at which the run has ended
TerminalPcs == {"done", "crashed"}

\* KeyboardInterrupt: caught at line 174 when raised inside the try block,
\* uncaught anywhere else
Interrupt ==
    /\ pc \notin TerminalPcs
    /\ interrupts < MaxInterrupts
    /\ interrupts' = interrupts + 1
    /\ intrAt' = IF interrupts = 0 THEN pc ELSE intrAt
    /\ IF pc \in TryPcs
       THEN pc' = "except" /\ err' = err
       ELSE Raise("KeyboardInterrupt")
    /\ UNCHANGED <<inputVars, resolveVars, schedVars, fileVars, monVars>>

\* Cancel without the scancel: the handler only reports
Cancel_NoScancel ==
    /\ pc = "except"
    /\ pc' = "report_cancelled"
    /\ UNCHANGED <<err, intrVars, inputVars, resolveVars, schedVars, fileVars,
                   monVars>>

\* line 175: scancel for the job name
Cancel ==
    /\ pc = "except"
    /\ cancelCalls' = Append(cancelCalls, job_name)
    /\ jobState' = IF InQueue THEN "gone" ELSE jobState
    /\ pc' = "report_cancelled"
    /\ UNCHANGED <<err, intrVars, inputVars, resolveVars, submitRcs,
                   queryFailed, fileVars, monVars>>

\* line 176: print "Job cancelled."
ReportCancelled ==
    /\ pc = "report_cancelled"
    /\ reported' = reported \cup {"cancelled"}
    /\ pc' = "done"
    /\ UNCHANGED <<err, intrVars, inputVars, resolveVars, schedVars, fileVars,
                   readOff, line, resume, text, forwarded, consumed, jobinfo,
                   nReads>>

(* --------------------------- specifications --------------------------- *)
Next ==
    \/ LoadCache
    \/ CheckCommand
    \/ ResolveProject
    \/ ResolveQueue
    \/ MakeJobDir
    \/ BuildFlags
    \/ BuildEnv
    \/ WriteLaunchScript
    \/ WriteSlurmScript
    \/ Submit
    \/ Announce
    \/ AttachCheck
    \/ AttachCreate
    \/ Open
    \/ ReadLine
    \/ Sleep
    \/ YieldLine
    \/ Forward
    \/ Query
    \/ CheckBreak
    \/ ReportFinished
    \/ Interrupt
    \/ Cancel
    \/ ReportCancelled
    \/ JobStart
    \/ JobWrite
    \/ JobExit

Spec == Init /\ [][Next]_vars

\* the steps of runjob() itself: everything but the interrupt and the
\* remote job
ProgramStep ==
    \/ LoadCache
    \/ CheckCommand
    \/ ResolveProject
    \/ ResolveQueue
    \/ MakeJobDir
    \/ BuildFlags
    \/ BuildEnv
    \/ WriteLaunchScript
    \/ WriteSlurmScript
    \/ Submit
    \/ Announce
    \/ AttachCheck
    \/ AttachCreate
    \/ Open
    \/ ReadLine
    \/ Sleep
    \/ YieldLine
    \/ Forward
    \/ Query
    \/ CheckBreak
    \/ ReportFinished
    \/ Cancel
    \/ ReportCancelled

\* the runs in which the program keeps running (it is one sequential
\* process: every call it makes returns, the sleep of line 28 included)
\* and in which the job does not stay in the scheduler's queue for ever
SpecLive ==
    /\ Init
    /\ [][Next]_vars
    /\ WF_vars(ProgramStep)
    /\ WF_vars(JobExit)

(* ------------------------------ claims -------------------------------- *)

\* C1: when the monitor reports Finished, what it forwarded is the whole
\* final contents of the output file: every byte once and in order, with
\* no unread output left behind.
C1_FinishedForwardedAll ==
    "finished" \in reported => forwarded = file /\ readOff = Len(file)

\* C2: an interrupt that arrives while the monitor is in its polling loop
\* gives exactly one scancel, for the submitted job name, then "Job
\* cancelled"; Finished is never reported after it, the run does not end
\* with an exception, and the job is not left in the queue.
C2_InterruptCancels ==
    (interrupts >= 1 /\ intrAt \in StreamingPcs) =>
        /\ "finished" \notin reported
        /\ Len(cancelCalls) <= 1
        /\ interrupts = 1 =>
            /\ err = "none"
            /\ pc \in {"except", "report_cancelled", "done"}
            /\ pc # "except" => cancelCalls = <<args.jobid>> /\ ~InQueue
            /\ pc = "done" => "cancelled" \in reported

\* a run that was interrupted once, in the polling loop, while the job was
\* writing, and has ended
C2_Witness ==
    /\ interrupts = 1
    /\ intrAt \in StreamingPcs
    /\ pc = "done"
    /\ written # <<>>
    /\ submitRcs = <<0>>

C4_FailedSubmitIsFatal ==
    (submitRcs # <<>> /\ submitRcs[1] # 0) =>
        /\ "submitted" \notin reported
        /\ "finished" \notin reported
        /\ ~fileExists
        /\ jobinfo = "unset"
        /\ pc # "done"

C10_FileIsWhatJobWrote ==
    file = written

(* the resolution, under SpecResolve *)

\* the project and the queue that a run asks for, by the precedence rules
WantedProject ==
    IF args.project # "" THEN args.project ELSE cfg.default_project
WantedQueue ==
    IF args.queue # "" THEN args.queue
    ELSE IF "default_queue" \in DOMAIN cfg.projects[WantedProject]
         THEN cfg.projects[WantedProject].default_queue
         ELSE cfg.default_queue
BadInput ==
    \/ ~cachePresent
    \/ args.command = <<>>
    \/ WantedProject \notin DOMAIN cfg.projects
    \/ WantedQueue \notin DOMAIN cfg.gpu_queues

\* C6: with no cache file, no command token, an unknown project or an
\* unknown queue, the run ends with an exception during the resolution
\* and nothing of the job is produced: no flags, no environment, no
\* directory, no script.
C6_BadInputFails ==
    BadInput =>
        /\ pc \in {"load_cache", "check_command", "resolve_project",
                   "resolve_queue", "crashed"}
        /\ pc = "crashed" => err \in {"ValueError", "KeyError"}
        /\ (pc = "crashed" /\ (~cachePresent \/ args.command = <<>>)) =>
               err = "ValueError"
        /\ flags = <<>> /\ env = <<>>
        /\ ~jobDirExists /\ scriptSh = <<>> /\ scriptSlurm = <<>>

\* a run that failed on an unknown queue, everything else being in order
C6_Witness ==
    /\ pc = "crashed"
    /\ err = "KeyError"
    /\ cachePresent
    /\ args.command # <<>>
    /\ project \in DOMAIN cfg.projects
    /\ queue = "qx"

\* C7: the selected project is the override when there is one, else the
\* global default; the selected queue is the override when there is one,
\* else the project's default queue when it has one, else the global
\* default queue.
C7_Precedence ==
    /\ project # "" =>
        /\ args.project # "" => project = args.project
        /\ args.project = "" => project = cfg.default_project
    /\ queue # "" =>
        LET proj == cfg.projects[project]
        IN  /\ args.queue # "" => queue = args.queue
            /\ (args.queue = "" /\ "default_queue" \in DOMAIN proj) =>
                   queue = proj.default_queue
            /\ (args.queue = "" /\ "default_queue" \notin DOMAIN proj) =>
                   queue = cfg.default_queue

\* a resolved run in which the project's default queue won over a different
\* global default queue
C7_Witness ==
    /\ pc = "submit"
    /\ args.queue = ""
    /\ project = "p1"
    /\ queue = "q2"
    /\ cfg.default_queue = "q1"

\* the numbers of the selected queue
QueueGpus == cfg.gpu_queues[queue].n_gpus_per_node
QueueCpus == cfg.gpu_queues[queue].n_cpus_per_node
\* the smaller of the two counts, and the floor of the quotient
ExpectedTasks ==
    IF args.ngpus <= QueueGpus THEN args.ngpus ELSE QueueGpus
ExpectedCpus ==
    CHOOSE k \in 0..QueueCpus :
        k * QueueGpus <= QueueCpus /\ QueueCpus < (k + 1) * QueueGpus
\* the places of a line in the directive script
LinesEqual(l) == {i \in 1..Len(scriptSlurm) : scriptSlurm[i] = l}
\* the values a directive could carry
DirectiveValues == {ToString(n) : n \in 0..99}

\* C8: ntasks-per-node is min(requested GPUs, GPUs per node), cpus-per-task
\* is floor(CPUs per node / GPUs per node), and the directive script holds
\* one line for each of the two, with that value and no other.
C8_DerivedCounts ==
    /\ flags # <<>> =>
        /\ DictGet(flags, "ntasks-per-node") = ToString(ExpectedTasks)
        /\ DictGet(flags, "cpus-per-task") = ToString(ExpectedCpus)
    /\ scriptSlurm # <<>> =>
        \A v \in DirectiveValues :
            /\ Cardinality(LinesEqual("#SBATCH --ntasks-per-node=" \o v))
                   = IF v = ToString(ExpectedTasks) THEN 1 ELSE 0
            /\ Cardinality(LinesEqual("#SBATCH --cpus-per-task=" \o v))
                   = IF v = ToString(ExpectedCpus) THEN 1 ELSE 0

\* the run of the example: 2 GPUs asked on a node of 4 GPUs and 32 CPUs
C8_Witness ==
    /\ pc = "submit"
    /\ args.ngpus = 2 /\ QueueGpus = 4 /\ QueueCpus = 32
    /\ LinesEqual("#SBATCH --ntasks-per-node=2") # {}
    /\ LinesEqual("#SBATCH --cpus-per-task=8") # {}

\* a run where the request exceeds the node and the quotient is not whole
C8_WitnessFloor ==
    /\ pc = "submit"
    /\ args.ngpus = 3 /\ QueueGpus = 2 /\ QueueCpus = 7
    /\ DictGet(flags, "ntasks-per-node") = "2"
    /\ DictGet(flags, "cpus-per-task") = "3"

\* C9: the directive script is the shebang line, one "#SBATCH --key=value"
\* line per flag in the order of the flags, an empty line, one
\* "export KEY=VALUE" line per environment entry in their order, an empty
\* line, and the launch command: nothing dropped, repeated or moved.
C9_DirectiveScriptFormat ==
    scriptSlurm # <<>> =>
        LET nf == Len(flags)
            ne == Len(env)
        IN  /\ Len(scriptSlurm) = nf + ne + 4
            /\ scriptSlurm[1] = "#!/bin/bash"
            /\ \A i \in 1..nf :
                   scriptSlurm[1 + i] =
                       "#SBATCH --" \o flags[i][1] \o "=" \o flags[i][2]
            /\ scriptSlurm[nf + 2] = ""
            /\ \A j \in 1..ne :
                   scriptSlurm[nf + 2 + j] =
                       "export " \o env[j][1] \o "=" \o env[j][2]
            /\ scriptSlurm[nf + ne + 3] = ""
            /\ scriptSlurm[nf + ne + 4] = "srun bash /scratch/42/script.sh"

\* a written directive script whose flags came from a queue that already
\* set one of the keys, with a time override put in
C9_Witness ==
    /\ pc = "submit"
    /\ queue = "q1"
    /\ args.time # ""
    /\ Len(flags) = 9
    /\ Len(env) = 8
    /\ Len(scriptSlurm) = 21

\* the pieces of the launch script that are the GPU-assignment step
GpuStepPieces ==
    {i \in 1..Len(scriptSh) :
        scriptSh[i] \in
            {"\n# This is automatically added by job-runner",
             "\neval $(/opt/conda/envs/env1/bin/python "
                 \o "/pkg/job_runner/assign_gpu.py)\n",
             "\neval $(/opt/conda/envs/env2/bin/python "
                 \o "/pkg/job_runner/assign_gpu.py)\n"}}

\* C11: the launch script is the project's preamble, then the
\* GPU-assignment step exactly when assign_gpu is set (not with
\* --no-assign-gpu), then the command with its output sent to $OUT_FILE;
\* the command is the last piece and the GPU step comes before it.
C11_LaunchScriptFormat ==
    scriptSh # <<>> =>
        LET n == Len(scriptSh)
            proj == cfg.projects[project]
        IN  /\ scriptSh[1] = PreambleText(proj.preamble)
            /\ scriptSh[n] = "echo hi &> $OUT_FILE"
            /\ scriptSh[n - 1] = "\n"
            /\ args.assign_gpu =>
                   /\ n = 5
                   /\ GpuStepPieces = {2, 3}
                   /\ scriptSh[3] = "\neval $(/opt/conda/envs/"
                          \o proj.conda_env
                          \o "/bin/python /pkg/job_runner/assign_gpu.py)\n"
            /\ ~args.assign_gpu => n = 3 /\ GpuStepPieces = {}

\* a launch script written with --no-assign-gpu for the project without a
\* default queue
C11_Witness ==
    /\ pc = "submit"
    /\ ~args.assign_gpu
    /\ project = "p2"
    /\ Len(scriptSh) = 3

\* C12: a failed read of the output file ends the run with that error:
\* Finished is not reported then or later, no read and no status query
\* follows, and what was forwarded before stays as it was.
C12_ReadFailureIsFatal ==
    [][err' = "OSError" =>
          /\ pc' = "crashed"
          /\ "finished" \notin reported'
          /\ forwarded' = forwarded
          /\ cancelCalls' = cancelCalls
          /\ err = "OSError" => UNCHANGED <<pc, monVars, queryFailed>>]_vars

\* a run whose read failed after output had been forwarded, the job still
\* being in the queue
C12_Witness ==
    /\ err = "OSError"
    /\ pc = "crashed"
    /\ forwarded # <<>>
    /\ InQueue

\* C13: every status query follows exactly one read attempt made since the
\* query before it, and the monitor sleeps only after a read that returned
\* nothing.
C13_OneReadPerQuery ==
    /\ pc = "query" => nReads = 1
    /\ pc = "sleep" => line = <<>>

\* s is the start of t
IsPrefix(s, t) == Len(s) <= Len(t) /\ s = SubSeq(t, 1, Len(s))

\* C14: at every moment what has been forwarded is a start of the output
\* file as it is then, what has been read is the file up to the read
\* offset, and the read offset never goes back: nothing is forwarded
\* twice, out of order or before it is in the file.
C14_ForwardedIsPrefix ==
    /\ [](/\ IsPrefix(forwarded, file)
          /\ IsPrefix(forwarded, consumed)
          /\ readOff <= Len(file)
          /\ consumed = SubSeq(file, 1, readOff))
    /\ [][readOff' >= readOff]_vars

\* a chunk that ended in the middle of a line was forwarded, and the rest
\* of the line is in the file, not yet read
C14_Witness ==
    /\ pc = "query"
    /\ forwarded = <<"a">>
    /\ file = <<"a", "a", NL>>
    /\ file = written

\* C15: scancel is invoked only after an interrupt that arrived inside the
\* try block, and at most once for each: with no interrupt there is no
\* scancel, whether the run reports Finished, the submission fails, or a
\* status query or a read fails.
C15_CancelOnlyOnInterrupt ==
    /\ Len(cancelCalls) <= interrupts
    /\ cancelCalls # <<>> => intrAt \in TryPcs
    /\ "finished" \in reported => cancelCalls = <<>>
    /\ "cancelled" \in reported => interrupts >= 1

\* a run without any interrupt that forwarded output and whose status
\* query then failed, the job still being in the queue
C15_Witness ==
    /\ interrupts = 0
    /\ pc = "crashed"
    /\ queryFailed
    /\ forwarded # <<>>
    /\ InQueue
    /\ cancelCalls = <<>>

\* a run without any interrupt whose submission failed and that reported
\* Finished
C15_WitnessFailedSubmit ==
    /\ interrupts = 0
    /\ submitRcs = <<1>>
    /\ "finished" \in reported
    /\ cancelCalls = <<>>

\* the positions of file_iterator and of the loop of print_output
MonitorPcs == {"attach_check", "attach_create", "open"} \cup StreamingPcs

\* C16: the stages of a run go forward only: the job directory exists
\* before a script is written, both scripts are written before sbatch is
\* invoked, nothing is read from the output file and no status is queried
\* before sbatch has returned, and sbatch is invoked at most once.
C16_StagesInOrder ==
    /\ (scriptSh # <<>> \/ scriptSlurm # <<>>) => jobDirExists
    /\ scriptSlurm # <<>> => scriptSh # <<>>
    /\ (pc = "submit" \/ submitRcs # <<>>) =>
           scriptSh # <<>> /\ scriptSlurm # <<>>
    /\ (pc \in MonitorPcs \/ nReads > 0 \/ consumed # <<>>
            \/ jobinfo # "unset" \/ queryFailed) =>
           Len(submitRcs) = 1
    /\ Len(submitRcs) <= 1
    /\ InQueue => submitRcs = <<0>>

\* a run that went through every stage: submitted, polled more than once
\* and reported Finished
C16_Witness ==
    /\ pc = "done"
    /\ submitRcs = <<0>>
    /\ "finished" \in reported
    /\ consumed = <<"a", NL, "a">>

\* C17: a run whose resolution fails (no cache file, no command, unknown
\* project or queue) touches nothing of the job: no job directory, no
\* script, no output file, and no sbatch, squeue or scancel.
C17_FailedResolutionHasNoEffect ==
    BadInput =>
        /\ ~jobDirExists
        /\ scriptSh = <<>> /\ scriptSlurm = <<>>
        /\ ~fileExists
        /\ submitRcs = <<>>
        /\ jobState = "none"
        /\ jobinfo = "unset" /\ ~queryFailed
        /\ cancelCalls = <<>>
        /\ reported = {}

\* a run that ended on the lookup of an unknown queue, the last of the
\* checks, with no interrupt
C17_Witness ==
    /\ pc = "crashed"
    /\ err = "KeyError"
    /\ interrupts = 0
    /\ project = "p1"
    /\ queue = "qx"

\* C18: after a successful submission the monitor reaches Finished, unless
\* an interrupt is delivered or a read or a status query fails: it does
\* not poll for ever once the job has left the queue, with or without
\* output.
C18_EventuallyFinished ==
    (submitRcs = <<0>>) ~>
        ("finished" \in reported \/ interrupts > 0 \/ err # "none")

\* a submitted job that left the queue without writing anything, and the
\* monitor reported Finished
C18_Witness ==
    /\ submitRcs = <<0>>
    /\ "finished" \in reported
    /\ interrupts = 0
    /\ written = <<>>
    /\ nReads = 0

\* a submitted job that wrote its output and left, and the monitor
\* reported Finished
C18_WitnessOutput ==
    /\ submitRcs = <<0>>
    /\ "finished" \in reported
    /\ interrupts = 0
    /\ Len(written) = MaxFileLen

====
